---- MODULE Spec2Model ----
(***************************************************************************)
(* Airline cargo expert system (airline_expert_system_gui.py): the         *)
(* inference engine find_flight / flight_available and the CargoExpertGUI   *)
(* callbacks that drive it.                                                 *)
(***************************************************************************)
EXTENDS Integers, Sequences, FiniteSets, TLC

(***************************************************************************)
(* Python values.  A value carries its dynamic type in t:                   *)
(*   "num" a finite number n, "inf"/"ninf"/"nan" the float specials,        *)
(*   "str" a string s (sequence of one-character strings),                  *)
(*   "absent" a key that is missing from the dict,                          *)
(*   "lit" a literal fragment of a formatted text.                          *)
(***************************************************************************)
Num(n) == [t |-> "num", n |-> n, s |-> <<>>]

Str(chars) == [t |-> "str", n |-> 0, s |-> chars]

Absent == [t |-> "absent", n |-> 0, s |-> <<>>]

Inf == [t |-> "inf", n |-> 0, s |-> <<>>]

NegInf == [t |-> "ninf", n |-> 0, s |-> <<>>]

NaN == [t |-> "nan", n |-> 0, s |-> <<>>]

Lit(text) == [t |-> "lit", n |-> 0, s |-> <<text>>]

IsFloat(v) == v.t \in {"num", "inf", "ninf", "nan"}

(***************************************************************************)
(* Characters: the ASCII characters the inputs use, in code-point order.    *)
(***************************************************************************)
Ascii ==
    <<" ", "+", "-", "0", "1", "2", "3", "4", "5", "6", "7", "8", "9", ":",
      "A", "B", "C", "D", "E", "F", "G", "H", "I", "J", "K", "L", "M",
      "N", "O", "P", "Q", "R", "S", "T", "U", "V", "W", "X", "Y", "Z",
      "a", "b", "c", "d", "e", "f", "g", "h", "i", "j", "k", "l", "m",
      "n", "o", "p", "q", "r", "s", "t", "u", "v", "w", "x", "y", "z">>

Chars == {Ascii[i] : i \in 1..Len(Ascii)}

\* ord(c), counted from the first character of Ascii
OrdOf == [c \in Chars |-> CHOOSE i \in 1..Len(Ascii) : Ascii[i] = c]

Ord(c) == OrdOf[c]

FirstUpper == OrdOf["A"]

FirstLower == OrdOf["a"]

IsUpper(c) == Ord(c) >= FirstUpper /\ Ord(c) < FirstLower

LowerOf ==
    [c \in Chars |-> IF IsUpper(c) THEN Ascii[Ord(c) - FirstUpper + FirstLower] ELSE c]

\* str.lower() on one character
LowerChar(c) == LowerOf[c]

\* str.lower()
Lower(chars) == [i \in 1..Len(chars) |-> LowerChar(chars[i])]

IsDigit(c) == Ord(c) >= Ord("0") /\ Ord(c) <= Ord("9")

DigitVal(c) == Ord(c) - Ord("0")

AllDigits(chars) == \A i \in 1..Len(chars) : IsDigit(chars[i])

RECURSIVE DecimalVal(_)
\* int value of a string of decimal digits
DecimalVal(chars) ==
    IF chars = <<>> THEN 0
    ELSE 10 * DecimalVal(SubSeq(chars, 1, Len(chars) - 1)) + DigitVal(chars[Len(chars)])

RECURSIVE StrLess(_, _)
\* a < b on Python strings: lexicographic by code point
StrLess(a, b) ==
    IF b = <<>> THEN FALSE
    ELSE IF a = <<>> THEN TRUE
    ELSE IF a[1] = b[1] THEN StrLess(Tail(a), Tail(b))
    ELSE Ord(a[1]) < Ord(b[1])

(***************************************************************************)
(* float(text) as the callbacks use it: an optional sign, then decimal      *)
(* digits, or inf / infinity / nan in any case.  ok = FALSE is ValueError.  *)
(***************************************************************************)
FloatBody(chars, negative) ==
    IF chars # <<>> /\ AllDigits(chars)
    THEN [ok |-> TRUE, v |-> Num(IF negative THEN 0 - DecimalVal(chars) ELSE DecimalVal(chars))]
    ELSE IF Lower(chars) \in {<<"i", "n", "f">>, <<"i", "n", "f", "i", "n", "i", "t", "y">>}
    THEN [ok |-> TRUE, v |-> IF negative THEN NegInf ELSE Inf]
    ELSE IF Lower(chars) = <<"n", "a", "n">>
    THEN [ok |-> TRUE, v |-> NaN]
    ELSE [ok |-> FALSE, v |-> NaN]

Float(chars) ==
    IF chars # <<>> /\ chars[1] \in {"+", "-"}
    THEN FloatBody(Tail(chars), chars[1] = "-")
    ELSE FloatBody(chars, FALSE)

(***************************************************************************)
(* Float comparison and subtraction.                                       *)
(***************************************************************************)
FLess(a, b) ==
    CASE a.t = "nan" \/ b.t = "nan" -> FALSE
      [] a.t = "ninf" -> b.t # "ninf"
      [] b.t = "inf" -> a.t # "inf"
      [] a.t = "inf" \/ b.t = "ninf" -> FALSE
      [] OTHER -> a.n < b.n

FEq(a, b) == a.t # "nan" /\ b.t # "nan" /\ a.t = b.t /\ a.n = b.n

FLeq(a, b) == FLess(a, b) \/ FEq(a, b)

\* a - b for a finite a
FSub(a, b) ==
    CASE b.t = "num" -> Num(a.n - b.n)
      [] b.t = "ninf" -> Inf
      [] b.t = "inf" -> NegInf
      [] OTHER -> NaN

(***************************************************************************)
(* Wall clock.  An instant is a count of clock ticks since midnight of day  *)
(* 0; a tick is the resolution of datetime.datetime.now().                  *)
(***************************************************************************)
HoursPerDay == 24

MinutesPerHour == 60

TicksPerMinute == 2

TicksPerDay == HoursPerDay * MinutesPerHour * TicksPerMinute

\* now.year, now.month, now.day: the calendar date of an instant
DateOf(now) == now \div TicksPerDay

StrpFail == [ok |-> FALSE, hour |-> 0, minute |-> 0]

\* datetime.datetime.strptime(text, "%H:%M"); ok = FALSE is ValueError
StrpTime(chars) ==
    LET colons == {p \in 1..Len(chars) : chars[p] = ":"}
    IN  IF Cardinality(colons) # 1 THEN StrpFail
        ELSE LET p == CHOOSE q \in colons : TRUE
                 hh == SubSeq(chars, 1, p - 1)
                 mm == SubSeq(chars, p + 1, Len(chars))
             IN  IF /\ Len(hh) \in 1..2
                    /\ Len(mm) \in 1..2
                    /\ AllDigits(hh)
                    /\ AllDigits(mm)
                    /\ DecimalVal(hh) < HoursPerDay
                    /\ DecimalVal(mm) < MinutesPerHour
                 THEN [ok |-> TRUE, hour |-> DecimalVal(hh), minute |-> DecimalVal(mm)]
                 ELSE StrpFail

\* strptime(...).replace(year=now.year, month=now.month, day=now.day)
DepartureInstant(parsed, now) ==
    DateOf(now) * TicksPerDay
        + (parsed.hour * MinutesPerHour + parsed.minute) * TicksPerMinute

flight_available_inclusive(rule, now) ==
    IF rule.departure_time.t # "str" THEN FALSE
    ELSE LET parsed == StrpTime(rule.departure_time.s)
         IN  IF ~parsed.ok THEN FALSE
             ELSE now <= DepartureInstant(parsed, now)

\* flight_available(rule), with now the value datetime.datetime.now() returns
flight_available(rule, now) ==
    IF rule.departure_time.t # "str" THEN FALSE
    ELSE LET parsed == StrpTime(rule.departure_time.s)
         IN  IF ~parsed.ok THEN FALSE
             ELSE now < DepartureInstant(parsed, now)

(***************************************************************************)
(* Inference engine.                                                       *)
(***************************************************************************)
\* one flight rule: a dict of rules.json
Rule(flight, destination, max_weight, airport_code, departure_time, carbon_footprint) ==
    [flight |-> flight, destination |-> destination, max_weight |-> max_weight,
     airport_code |-> airport_code, departure_time |-> departure_time,
     carbon_footprint |-> carbon_footprint]

\* rule["destination"].lower() == destination.lower()
SameDestination(rule, destination) ==
    Lower(rule.destination.s) = Lower(destination)

\* the condition of the loop raises: KeyError, AttributeError or TypeError
ConditionRaises(rule, cargo_weight, destination) ==
    \/ rule.destination.t # "str"
    \/ /\ SameDestination(rule, destination)
       /\ ~IsFloat(rule.max_weight)

ConditionHoldsStrict(rule, cargo_weight, destination, now) ==
    /\ SameDestination(rule, destination)
    /\ FLess(cargo_weight, rule.max_weight)
    /\ flight_available(rule, now)

\* the condition of the loop, the clock read by flight_available being now
ConditionHolds(rule, cargo_weight, destination, now) ==
    /\ SameDestination(rule, destination)
    /\ FLeq(cargo_weight, rule.max_weight)
    /\ flight_available(rule, now)

CandidateReversed(rule, cargo_weight, pos) ==
    [rule |-> rule, surplus |-> FSub(cargo_weight, rule.max_weight), pos |-> pos]

\* (rule, surplus); pos is the identity of the dict: its place in rules
Candidate(rule, cargo_weight, pos) ==
    [rule |-> rule, surplus |-> FSub(rule.max_weight, cargo_weight), pos |-> pos]

RECURSIVE CandidatesFrom(_, _, _, _, _)
\* the loop over rules from index i on; reads[i] is the clock rule i is judged at
CandidatesFrom(i, rules, cargo_weight, destination, reads) ==
    IF i > Len(rules) THEN <<>>
    ELSE IF ConditionHolds(rules[i], cargo_weight, destination, reads[i])
    THEN <<Candidate(rules[i], cargo_weight, i)>>
             \o CandidatesFrom(i + 1, rules, cargo_weight, destination, reads)
    ELSE CandidatesFrom(i + 1, rules, cargo_weight, destination, reads)

\* candidates after the loop
Candidates(rules, cargo_weight, destination, reads) ==
    CandidatesFrom(1, rules, cargo_weight, destination, reads)

\* the loop raises on some rule
LoopRaises(rules, cargo_weight, destination) ==
    \E i \in 1..Len(rules) : ConditionRaises(rules[i], cargo_weight, destination)

\* a < b on two carbon_footprint values of comparable type
CarbonLess(a, b) ==
    IF a.t = "str" THEN StrLess(a.s, b.s) ELSE FLess(a, b)

\* a == b on two carbon_footprint values
CarbonEq(a, b) ==
    IF a.t = "str" \/ b.t = "str" THEN a = b ELSE FEq(a, b)

KeyLessCostFirst(x, y) ==
    \/ CarbonLess(x.rule.carbon_footprint, y.rule.carbon_footprint)
    \/ /\ CarbonEq(x.rule.carbon_footprint, y.rule.carbon_footprint)
       /\ FLess(x.surplus, y.surplus)

\* (x[1], x[0]["carbon_footprint"]) < the same key of y
KeyLess(x, y) ==
    \/ FLess(x.surplus, y.surplus)
    \/ /\ FEq(x.surplus, y.surplus)
       /\ ~CarbonEq(x.rule.carbon_footprint, y.rule.carbon_footprint)
       /\ CarbonLess(x.rule.carbon_footprint, y.rule.carbon_footprint)

\* candidates.sort raises: a key cannot be built (KeyError) or two keys that
\* tie on surplus hold footprints of different types (TypeError)
SortRaises(candidates) ==
    \/ \E i \in 1..Len(candidates) : candidates[i].rule.carbon_footprint.t = "absent"
    \/ \E i, j \in 1..Len(candidates) :
          /\ FEq(candidates[i].surplus, candidates[j].surplus)
          /\ (candidates[i].rule.carbon_footprint.t = "str")
                 # (candidates[j].rule.carbon_footprint.t = "str")

RECURSIVE InsertUnstable(_, _)
InsertUnstable(x, sorted) ==
    IF sorted = <<>> THEN <<x>>
    ELSE IF ~KeyLess(sorted[1], x) THEN <<x>> \o sorted
    ELSE <<sorted[1]>> \o InsertUnstable(x, Tail(sorted))

RECURSIVE Insert(_, _)
\* x put into a sorted list behind every element that is not greater
Insert(x, sorted) ==
    IF sorted = <<>> THEN <<x>>
    ELSE IF KeyLess(x, sorted[1]) THEN <<x>> \o sorted
    ELSE <<sorted[1]>> \o Insert(x, Tail(sorted))

RECURSIVE Sort(_)
\* list.sort(key=...): stable, ascending
Sort(candidates) ==
    IF candidates = <<>> THEN <<>>
    ELSE Insert(candidates[Len(candidates)],
                Sort(SubSeq(candidates, 1, Len(candidates) - 1)))

NoMatchText == <<Lit("No available flight for the given cargo and destination.")>>

\* the f-string of the explanation
Explanation(best) ==
    <<Lit("Flight "), best.rule.flight, Lit(" selected: surplus capacity "),
      best.surplus, Lit(" kg, carbon footprint "), best.rule.carbon_footprint>>

Raised ==
    [outcome |-> "raised", best |-> <<>>, text |-> <<>>, filtered |-> <<>>,
     candidates |-> <<>>]

\* find_flight(rules, cargo_weight, destination); reads[i] is what
\* datetime.datetime.now() returns while rule i is judged.  best is <<>> for
\* None and <<candidate>> for the chosen rule; filtered is the list candidates
\* when the loop ends and candidates the list as the function leaves it.
find_flight(rules, cargo_weight, destination, reads) ==
    LET candidates == Candidates(rules, cargo_weight, destination, reads)
    IN  IF LoopRaises(rules, cargo_weight, destination) THEN Raised
        ELSE IF candidates = <<>>
        THEN [outcome |-> "none", best |-> <<>>, text |-> NoMatchText,
              filtered |-> <<>>, candidates |-> <<>>]
        ELSE IF SortRaises(candidates) THEN Raised
        ELSE LET ranked == Sort(candidates)
             IN  IF ranked[1].rule.flight.t = "absent" THEN Raised
                 ELSE [outcome |-> "selected", best |-> <<ranked[1]>>,
                       text |-> Explanation(ranked[1]), filtered |-> candidates,
                       candidates |-> ranked]

(***************************************************************************)
(* State of the program.                                                   *)
(***************************************************************************)
VARIABLES
    rules,               \* self.rules: the list of flight rules
    recommended_flight,  \* self.recommended_flight: <<>> is None, <<rule>> a rule
    weight_var,          \* text of the weight entry
    destination_var,     \* text of the destination combobox
    dests,               \* values offered by the combobox
    cargo_limit_label,   \* text of the cargo limit label
    result_label,        \* text of the result label
    explanation_label,   \* text of the explanation label
    status_var,          \* text of the status bar
    admin_window,        \* the admin window is open
    toplevel,            \* the window the last callback opened: title and rows
    messagebox,          \* the message box the last callback showed, <<>> if none
    clock,               \* the wall clock: the last instant observed
    run                  \* the call made last: its inputs, clock reads and result

vars ==
    <<rules, recommended_flight, weight_var, destination_var, dests,
      cargo_limit_label, result_label, explanation_label, status_var,
      admin_window, toplevel, messagebox, clock, run>>

(***************************************************************************)
(* Bounds and input sets.                                                  *)
(***************************************************************************)
MaxRules == 2

MaxDrift == 1

Rome == <<"R", "o", "m", "e">>

ROME == <<"R", "O", "M", "E">>

rome == <<"r", "o", "m", "e">>

Oslo == <<"O", "s", "l", "o">>

T2359 == <<"2", "3", ":", "5", "9">>

T0001 == <<"0", "0", ":", "0", "1">>

T2500 == <<"2", "5", ":", "0", "0">>

RuleF1 == Rule(Str(<<"F", "1">>), Str(Rome), Num(5), Str(<<"F", "C", "O">>), Str(T2359), Num(8))

\* less capacity than the others, and the departure just after midnight
RuleF2 == Rule(Str(<<"F", "2">>), Str(ROME), Num(4), Str(<<"F", "C", "O">>), Str(T0001), Num(9))

RuleF3 == Rule(Str(<<"F", "3">>), Str(rome), Num(5), Str(<<"F", "C", "O">>), Str(T2359), Num(3))

\* ties with RuleF1 on both keys and repeats its identifier
RuleF1b == Rule(Str(<<"F", "1">>), Str(Rome), Num(5), Str(<<"C", "I", "A">>), Str(T2359), Num(8))

RuleF6 == Rule(Str(<<"F", "6">>), Str(Oslo), Num(5), Str(<<"O", "S", "L">>), Str(T2359), Num(1))

\* a departure time that does not parse
RuleF7 == Rule(Str(<<"F", "7">>), Str(Rome), Num(4), Str(<<"F", "C", "O">>), Str(T2500), Num(1))

EnginePool == {RuleF1, RuleF2, RuleF3, RuleF1b, RuleF6, RuleF7}

StoredPool == {RuleF1, RuleF6}

SeqsUpTo(S, n) == UNION {[1..k -> S] : k \in 0..n}

WeightTexts == {<<"3">>, <<"6">>, <<"-", "5">>, <<"a", "b", "c">>}

EngineWeightTexts == {<<"3">>, <<"5">>, <<"-", "5">>}

\* 23:59 of day 0
LastMinute == (23 * MinutesPerHour + 59) * TicksPerMinute

\* the instants observed: one tick before 23:59, 23:59, midnight, 00:01 of day 1
Instants == {LastMinute - 1, LastMinute, TicksPerDay, TicksPerDay + TicksPerMinute}

FirstInstant == CHOOSE t \in Instants : \A u \in Instants : t <= u

\* the instants the clock can show after at most k steps from t
After(t, k) ==
    {u \in Instants : u >= t /\ Cardinality({v \in Instants : t < v /\ v <= u}) <= k}

ReadSeqsOf ==
    [t \in Instants |->
        [n \in 0..(MaxRules + 1) |->
            {r \in [1..n -> After(t, MaxDrift)] :
                \A i \in 1..n : \A j \in i..n : r[i] <= r[j]}]]

\* the clock reads of one callback over n rules: the clock never runs back
ReadSeqs(t, n) == ReadSeqsOf[t][n]

NextInstantOf == [t \in Instants |-> {u \in After(t, 1) : u > t}]

LastRead(t, reads) == IF reads = <<>> THEN t ELSE reads[Len(reads)]

(***************************************************************************)
(* Construction.                                                           *)
(***************************************************************************)
NoneDests == <<<<"N", "o", "n", "e">>>>

RECURSIVE SortedStrings(_)
\* sorted(set of strings)
SortedStrings(S) ==
    IF S = {} THEN <<>>
    ELSE LET least == CHOOSE a \in S : \A b \in S : ~StrLess(b, a)
         IN  <<least>> \o SortedStrings(S \ {least})

\* sorted({r['destination'] for r in self.rules}) or ["None"]
Destinations(rs) ==
    LET S == {rs[i].destination.s : i \in 1..Len(rs)}
    IN  IF S = {} THEN NoneDests ELSE SortedStrings(S)

\* update_cargo_limits: the text put on the cargo limit label
CargoLimits(rs, city) ==
    LET city_rules == {i \in 1..Len(rs) : SameDestination(rs[i], city)}
    IN  IF city_rules = {} THEN <<Lit("No flights for selected city.")>>
        ELSE LET mins == CHOOSE i \in city_rules :
                             \A j \in city_rules : ~FLess(rs[j].max_weight, rs[i].max_weight)
                 maxs == CHOOSE i \in city_rules :
                             \A j \in city_rules : ~FLess(rs[i].max_weight, rs[j].max_weight)
             IN  <<Lit("Allowed weight: "), rs[mins].max_weight, Lit("-"),
                   rs[maxs].max_weight, Lit(" kg")>>

NoWindow == [title |-> "", rows |-> <<>>]

\* no call: what run holds when the last event was no call
Idle ==
    [handler |-> "", parsed |-> FALSE, w |-> NaN, destination |-> <<>>, now |-> 0,
     reads |-> <<>>, result |-> Raised]

\* the window on the rules rs, text in the weight entry and city selected
Entered(rs, text, city) ==
    /\ rules = rs
    /\ recommended_flight = <<>>
    /\ weight_var = text
    /\ dests = Destinations(rs)
    /\ destination_var = city
    /\ cargo_limit_label = CargoLimits(rs, city)
    /\ result_label = <<Lit("Recommended Flight:")>>
    /\ explanation_label = <<>>
    /\ status_var = "Ready"
    /\ admin_window = FALSE
    /\ toplevel = NoWindow
    /\ messagebox = <<>>
    /\ run = Idle

\* CargoExpertGUI.__init__ on the rules load_rules returned
Constructed(rs) == Entered(rs, <<>>, Destinations(rs)[1])

Init ==
    /\ \E rs \in SeqsUpTo(StoredPool, MaxRules) : Constructed(rs)
    /\ clock = FirstInstant

(***************************************************************************)
(* Callbacks.  toplevel and messagebox show what the callback that ran last *)
(* put on the screen; run keeps its inputs, its clock reads and the list it *)
(* built.                                                                   *)
(***************************************************************************)
\* a call that began at the instant clock shows
Ran(handler, w, destination, reads, result) ==
    [handler |-> handler, parsed |-> TRUE, w |-> w, destination |-> destination,
     now |-> clock, reads |-> reads, result |-> result]

\* float(self.weight_var.get()) raised ValueError: the callback shows the error
InputError(handler) ==
    /\ messagebox' = <<"Input Error", "Enter a valid number for weight.">>
    /\ toplevel' = NoWindow
    /\ run' = [Idle EXCEPT !.handler = handler]
    /\ UNCHANGED <<rules, recommended_flight, weight_var, destination_var, dests,
                   cargo_limit_label, result_label, explanation_label, status_var,
                   admin_window, clock>>

\* r.get(key, '')
Get(v) == IF v.t = "absent" THEN Str(<<>>) ELSE v

on_find_flight ==
    \E w \in {Float(weight_var)} :
        IF ~w.ok THEN InputError("on_find_flight")
        ELSE \E reads \in ReadSeqs(clock, Len(rules)) :
               \E result \in {find_flight(rules, w.v, destination_var, reads)} :
                   /\ run' = Ran("on_find_flight", w.v, destination_var, reads, result)
                   /\ clock' = LastRead(clock, reads)
                   /\ messagebox' = <<>>
                   /\ toplevel' = NoWindow
                   /\ CASE result.outcome = "selected" ->
                             /\ recommended_flight' = <<result.best[1].rule>>
                             /\ result_label' =
                                    <<Lit("Recommended Flight: "), result.best[1].rule.flight>>
                             /\ explanation_label' = result.text
                             /\ status_var' = "Flight recommended."
                        [] result.outcome = "none" ->
                             /\ result_label' = result.text
                             /\ explanation_label' = <<>>
                             /\ status_var' = "No match."
                             /\ UNCHANGED recommended_flight
                        [] OTHER ->
                             UNCHANGED <<recommended_flight, result_label,
                                         explanation_label, status_var>>
                   /\ UNCHANGED <<rules, weight_var, destination_var, dests,
                                  cargo_limit_label, admin_window>>

on_reset ==
    /\ weight_var' = <<>>
    /\ result_label' = <<Lit("Recommended Flight:")>>
    /\ explanation_label' = <<>>
    /\ status_var' = "Ready"
    /\ messagebox' = <<>>
    /\ toplevel' = NoWindow
    /\ run' = [Idle EXCEPT !.handler = "on_reset"]
    /\ UNCHANGED <<rules, recommended_flight, destination_var, dests,
                   cargo_limit_label, admin_window, clock>>

RECURSIVE MatchingFrom(_, _, _, _, _)
\* the loop of on_show_all_flights and of on_show_chart from index i on
MatchingFrom(i, rs, w, dest, reads) ==
    IF i > Len(rs) THEN <<>>
    ELSE IF /\ Lower(rs[i].destination.s) = Lower(dest)
            /\ FLeq(w, rs[i].max_weight)
            /\ flight_available(rs[i], reads[i])
    THEN <<[rule |-> rs[i], surplus |-> FSub(rs[i].max_weight, w), pos |-> i]>>
             \o MatchingFrom(i + 1, rs, w, dest, reads)
    ELSE MatchingFrom(i + 1, rs, w, dest, reads)

MatchingNoClock(rs, w, dest, reads) ==
    MatchingFrom(1, rs, w, dest, [i \in 1..Len(rs) |-> FirstInstant])

\* matching, the list on_show_all_flights builds; flights and surpluses, the
\* lists on_show_chart builds
Matching(rs, w, dest, reads) == MatchingFrom(1, rs, w, dest, reads)

\* the values of one row of the tree view
ListingRow(m) ==
    <<m.rule.flight, m.rule.max_weight, m.surplus, Get(m.rule.airport_code),
      Get(m.rule.departure_time), Get(m.rule.carbon_footprint)>>

\* one bar of the chart: flights[i] and surpluses[i]
ChartBar(m) == <<m.rule.flight, m.surplus>>

\* what a view leaves in run: the list it built
Viewed(matching) ==
    [outcome |-> "viewed", best |-> <<>>, text |-> <<>>, filtered |-> matching,
     candidates |-> matching]

\* a view that found nothing to show (box tells so), or raised
ViewWithout(handler, w, reads, result, box) ==
    /\ run' = Ran(handler, w, destination_var, reads, result)
    /\ clock' = LastRead(clock, reads)
    /\ messagebox' = box
    /\ toplevel' = NoWindow
    /\ UNCHANGED <<rules, recommended_flight, weight_var, destination_var, dests,
                   cargo_limit_label, result_label, explanation_label, status_var,
                   admin_window>>

\* a view that opened its window
ViewWith(handler, w, reads, result, window, status) ==
    /\ run' = Ran(handler, w, destination_var, reads, result)
    /\ clock' = LastRead(clock, reads)
    /\ messagebox' = <<>>
    /\ toplevel' = window
    /\ status_var' = status
    /\ UNCHANGED <<rules, recommended_flight, weight_var, destination_var, dests,
                   cargo_limit_label, result_label, explanation_label, admin_window>>

on_show_all_flights ==
    \E w \in {Float(weight_var)} :
        IF ~w.ok THEN InputError("on_show_all_flights")
        ELSE \E reads \in ReadSeqs(clock, Len(rules)) :
               \E matching \in {Matching(rules, w.v, destination_var, reads)} :
                   IF LoopRaises(rules, w.v, destination_var)
                   THEN ViewWithout("on_show_all_flights", w.v, reads, Raised, <<>>)
                   ELSE IF matching = <<>>
                   THEN ViewWithout("on_show_all_flights", w.v, reads, Viewed(matching),
                            <<"No Flights", "No available flights match the criteria.">>)
                   ELSE ViewWith("on_show_all_flights", w.v, reads, Viewed(matching),
                            [title |-> "Available Flights",
                             rows |-> [i \in 1..Len(matching) |-> ListingRow(matching[i])]],
                            "Displayed all flights.")

on_show_chart ==
    \E w \in {Float(weight_var)} :
        IF ~w.ok THEN InputError("on_show_chart")
        ELSE \E reads \in ReadSeqs(clock, Len(rules)) :
               \E matching \in {Matching(rules, w.v, destination_var, reads)} :
                   IF LoopRaises(rules, w.v, destination_var)
                   THEN ViewWithout("on_show_chart", w.v, reads, Raised, <<>>)
                   ELSE IF matching = <<>>
                   THEN ViewWithout("on_show_chart", w.v, reads, Viewed(matching),
                            <<"No Data", "No available flights to chart.">>)
                   ELSE ViewWith("on_show_chart", w.v, reads, Viewed(matching),
                            [title |-> "Surplus Capacity Chart",
                             rows |-> [i \in 1..Len(matching) |-> ChartBar(matching[i])]],
                            "Chart displayed.")

\* the details of the boarding pass
BoardingPass(r) ==
    <<r.flight, r.destination, Get(r.airport_code), Get(r.departure_time),
      r.max_weight, Get(r.carbon_footprint)>>

on_book_flight ==
    /\ run' = [Idle EXCEPT !.handler = "on_book_flight"]
    /\ IF recommended_flight = <<>>
       THEN /\ messagebox' = <<"No Flight", "No flight recommended to book.">>
            /\ toplevel' = NoWindow
            /\ UNCHANGED status_var
       ELSE /\ messagebox' = <<>>
            /\ toplevel' = [title |-> "Boarding Pass",
                            rows |-> <<BoardingPass(recommended_flight[1])>>]
            /\ status_var' = "Boarding pass shown."
    /\ UNCHANGED <<rules, recommended_flight, weight_var, destination_var, dests,
                   cargo_limit_label, result_label, explanation_label, admin_window,
                   clock>>

AdminTitle == "Admin Mode - Add Flight Rule"

on_admin_mode ==
    /\ admin_window' = TRUE
    /\ toplevel' = [title |-> AdminTitle, rows |-> <<>>]
    /\ status_var' = "In Admin mode."
    /\ messagebox' = <<>>
    /\ run' = [Idle EXCEPT !.handler = "on_admin_mode"]
    /\ UNCHANGED <<rules, recommended_flight, weight_var, destination_var, dests,
                   cargo_limit_label, result_label, explanation_label, clock>>

\* the texts of the six entries of the admin window
Entries(flight, destination, max_weight, airport_code, departure_time, carbon_footprint) ==
    [flight |-> flight, destination |-> destination, max_weight |-> max_weight,
     airport_code |-> airport_code, departure_time |-> departure_time,
     carbon_footprint |-> carbon_footprint]

AdminEntries ==
    {Entries(<<"F", "2">>, ROME, <<"4">>, <<"F", "C", "O">>, T0001, <<"3">>),
     Entries(<<"F", "8">>, Rome, <<"a", "b", "c">>, <<"F", "C", "O">>, T2359, <<"3">>)}

\* add(), the command of the Add Flight button of the admin window
add ==
    /\ admin_window
    /\ Len(rules) < MaxRules
    /\ \E e \in AdminEntries :
         LET max_weight == Float(e.max_weight)
             carbon_footprint == Float(e.carbon_footprint)
             new == Rule(Str(e.flight), Str(e.destination), max_weight.v,
                         Str(e.airport_code), Str(e.departure_time), carbon_footprint.v)
         IN  IF ~max_weight.ok \/ ~carbon_footprint.ok
             THEN /\ messagebox' = <<"Input Error", "Check numeric fields.">>
                  /\ UNCHANGED <<rules, admin_window, cargo_limit_label>>
             ELSE /\ rules' = Append(rules, new)
                  /\ messagebox' = <<"Success", "Flight added.">>
                  /\ admin_window' = FALSE
                  /\ cargo_limit_label' = CargoLimits(Append(rules, new), destination_var)
    /\ toplevel' = NoWindow
    /\ run' = [Idle EXCEPT !.handler = "add"]
    /\ UNCHANGED <<recommended_flight, weight_var, destination_var, dests,
                   result_label, explanation_label, status_var, clock>>

(***************************************************************************)
(* The user and the clock.                                                 *)
(***************************************************************************)
\* what every event other than a callback leaves on the screen and in run
Quiet ==
    /\ messagebox' = <<>>
    /\ toplevel' = NoWindow
    /\ run' = Idle

\* the user edits the weight entry
TypeWeight ==
    /\ \E text \in WeightTexts : weight_var' = text
    /\ Quiet
    /\ UNCHANGED <<rules, recommended_flight, destination_var, dests,
                   cargo_limit_label, result_label, explanation_label, status_var,
                   admin_window, clock>>

\* the user picks a destination: <<ComboboxSelected>> calls update_cargo_limits
SelectDestination ==
    /\ \E i \in 1..Len(dests) :
         /\ destination_var' = dests[i]
         /\ cargo_limit_label' = CargoLimits(rules, dests[i])
    /\ Quiet
    /\ UNCHANGED <<rules, recommended_flight, weight_var, dests, result_label,
                   explanation_label, status_var, admin_window, clock>>

\* time passes between two callbacks
Tick ==
    /\ \E t \in NextInstantOf[clock] : clock' = t
    /\ Quiet
    /\ UNCHANGED <<rules, recommended_flight, weight_var, destination_var, dests,
                   cargo_limit_label, result_label, explanation_label, status_var,
                   admin_window>>

Next ==
    \/ on_find_flight
    \/ on_reset
    \/ on_show_all_flights
    \/ on_show_chart
    \/ on_book_flight
    \/ on_admin_mode
    \/ add
    \/ TypeWeight
    \/ SelectDestination
    \/ Tick

Spec == Init /\ [][Next]_vars

(***************************************************************************)
(* find_flight called on its own: rules, weight_var and destination_var     *)
(* hold its arguments, and no window exists.                                *)
(***************************************************************************)
Called(rs, text, city) ==
    /\ rules = rs
    /\ weight_var = text
    /\ destination_var = city
    /\ recommended_flight = <<>>
    /\ dests = <<>>
    /\ cargo_limit_label = <<>>
    /\ result_label = <<>>
    /\ explanation_label = <<>>
    /\ status_var = ""
    /\ admin_window = FALSE
    /\ toplevel = NoWindow
    /\ messagebox = <<>>
    /\ run = Idle
    /\ clock = FirstInstant

\* find_flight(rules, float(weight_var), destination_var)
call_find_flight ==
    /\ \E reads \in ReadSeqs(clock, Len(rules)) :
         /\ run' = Ran("find_flight", Float(weight_var).v, destination_var, reads,
                       find_flight(rules, Float(weight_var).v, destination_var, reads))
         /\ clock' = LastRead(clock, reads)
    /\ UNCHANGED <<rules, recommended_flight, weight_var, destination_var, dests,
                   cargo_limit_label, result_label, explanation_label, status_var,
                   admin_window, toplevel, messagebox>>

\* every rule list over EnginePool, every weight and city of the input sets
InitCall ==
    \E rs \in SeqsUpTo(EnginePool, MaxRules) :
      \E text \in EngineWeightTexts :
        \E city \in {rome, Oslo} : Called(rs, text, city)

SpecCall == InitCall /\ [][call_find_flight]_vars

(***************************************************************************)
(* The same call on rule lists that hold malformed records.                 *)
(***************************************************************************)
\* departure_time missing
RuleM1 == Rule(Str(<<"M", "1">>), Str(Rome), Num(4), Str(<<"F", "C", "O">>), Absent, Num(1))

\* carbon_footprint missing
RuleM2 == Rule(Str(<<"M", "2">>), Str(Rome), Num(5), Str(<<"F", "C", "O">>), Str(T2359), Absent)

\* carbon_footprint not a number
RuleM3 == Rule(Str(<<"M", "3">>), Str(Rome), Num(5), Str(<<"F", "C", "O">>), Str(T2359), Str(<<"l", "o", "w">>))

\* max_weight missing
RuleM4 == Rule(Str(<<"M", "4">>), Str(Rome), Absent, Str(<<"F", "C", "O">>), Str(T2359), Num(1))

\* max_weight not a number
RuleM5 == Rule(Str(<<"M", "5">>), Str(Rome), Str(<<"5">>), Str(<<"F", "C", "O">>), Str(T2359), Num(1))

\* destination missing
RuleM6 == Rule(Str(<<"M", "6">>), Absent, Num(5), Str(<<"F", "C", "O">>), Str(T2359), Num(1))

MalformedPool == {RuleM1, RuleM2, RuleM3, RuleM4, RuleM5, RuleM6, RuleF7, RuleF1, RuleF6}

InitMalformed ==
    \E rs \in SeqsUpTo(MalformedPool, MaxRules) :
      \E text \in {<<"3">>, <<"6">>} :
        \E city \in {rome, Oslo} : Called(rs, text, city)

SpecMalformed == InitMalformed /\ [][call_find_flight]_vars

(***************************************************************************)
(* The two views on every rule list over EnginePool: the window after the   *)
(* user has typed a weight and picked a destination.                        *)
(***************************************************************************)
InitViews ==
    /\ \E rs \in SeqsUpTo(EnginePool, MaxRules) :
         \E text \in EngineWeightTexts :
           \E i \in 1..Len(Destinations(rs)) : Entered(rs, text, Destinations(rs)[i])
    /\ clock = FirstInstant

NextViews ==
    \/ on_show_all_flights
    \/ on_show_chart

SpecViews == InitViews /\ [][NextViews]_vars

(***************************************************************************)
(* What the claims speak of, stated without the definitions of the engine.  *)
(***************************************************************************)
\* the city a destination text names, whatever its case
CityKey ==
    [c \in {Rome, ROME, rome, Oslo} |-> IF c = Oslo THEN "oslo" ELSE "rome"]

\* the minute of the day a departure text names
MinuteOfDay == [d \in {T2359, T0001} |-> IF d = T2359 THEN 23 * 60 + 59 ELSE 1]

\* the departure of r on the calendar date of t is strictly later than t
DepartsAfter(r, t) ==
    /\ r.departure_time.t = "str"
    /\ r.departure_time.s \in DOMAIN MinuteOfDay
    /\ (t \div TicksPerDay) * TicksPerDay
           + MinuteOfDay[r.departure_time.s] * TicksPerMinute > t

\* rule i goes to the city asked for
CityMatches(i) == CityKey[rules[i].destination.s] = CityKey[run.destination]

\* rule i can carry the weight asked for
Carries(i) == run.w.n <= rules[i].max_weight.n

\* rule i is eligible at the instant t
EligibleAt(i, t) == CityMatches(i) /\ Carries(i) /\ DepartsAfter(rules[i], t)

\* rule i is eligible at the instant it was judged at
Eligible(i) == EligibleAt(i, run.reads[i])

EligibleRules == {i \in 1..Len(rules) : Eligible(i)}

Surplus(i) == rules[i].max_weight.n - run.w.n

Cost(i) == rules[i].carbon_footprint.n

\* (surplus, carbon_footprint) of rule i is not above that of rule j
KeyLeq(i, j) ==
    \/ Surplus(i) < Surplus(j)
    \/ Surplus(i) = Surplus(j) /\ Cost(i) <= Cost(j)

KeyTie(i, j) == Surplus(i) = Surplus(j) /\ Cost(i) = Cost(j)

\* find_flight has been called and has returned
Returned == run.handler = "find_flight" /\ run.result.outcome # "raised"

\* the places in rules of the candidates the loop kept
Kept == {run.result.filtered[k].pos : k \in 1..Len(run.result.filtered)}

\* C1: find_flight returns a flight iff some rule is eligible; the flight it
\* returns is an eligible rule whose (surplus, carbon_footprint) is
\* lexicographically least among the eligible rules; with no eligible rule it
\* returns None and the no-match message.
C1_SelectsLexMin ==
    Returned =>
        /\ (run.result.outcome = "selected") <=> (EligibleRules # {})
        /\ EligibleRules = {} =>
              /\ run.result.outcome = "none"
              /\ run.result.best = <<>>
              /\ run.result.text =
                     <<Lit("No available flight for the given cargo and destination.")>>
        /\ EligibleRules # {} =>
              /\ Len(run.result.best) = 1
              /\ run.result.best[1].pos \in EligibleRules
              /\ run.result.best[1].rule = rules[run.result.best[1].pos]
              /\ \A j \in EligibleRules : KeyLeq(run.result.best[1].pos, j)

\* two eligible rules tie on surplus and the later, cheaper one is returned
C1_Witness ==
    /\ Returned
    /\ run.result.outcome = "selected"
    /\ \E i, j \in EligibleRules :
          /\ i < j
          /\ Surplus(i) = Surplus(j)
          /\ Cost(j) < Cost(i)
          /\ run.result.best[1].pos = j

\* C2: a rule is made a candidate iff its destination equals the one asked
\* for whatever the case, the weight is at most its max_weight and it is
\* available; the candidates stand in the order of the rules.
C2_FilterExact ==
    Returned =>
        LET f == run.result.filtered
        IN  /\ \A i \in 1..Len(rules) : (i \in Kept) <=> Eligible(i)
            /\ \A k \in 1..Len(f) : f[k].rule = rules[f[k].pos]
            /\ \A k, l \in 1..Len(f) : k < l => f[k].pos < f[l].pos

\* a weight equal to the capacity is accepted with surplus 0 while a rule of
\* the same city with less capacity is left out
C2_Witness ==
    /\ Returned
    /\ \E i \in Kept : Surplus(i) = 0
    /\ \E j \in 1..Len(rules) : CityMatches(j) /\ ~Carries(j) /\ j \notin Kept

\* C4: flight_available, asked about a rule, answers yes iff the departure
\* time of the rule on the calendar date of the instant it reads is strictly
\* later than that instant.
C4_AvailableStrict ==
    Returned =>
        \A i \in 1..Len(rules) :
            (CityMatches(i) /\ Carries(i)) =>
                ((i \in Kept) <=> DepartsAfter(rules[i], run.reads[i]))

\* one rule judged a tick before its departure is available, another judged
\* at its departure instant is not
C4_Witness ==
    /\ Returned
    /\ \E i, j \in 1..Len(rules) :
          /\ CityMatches(i) /\ Carries(i) /\ CityMatches(j) /\ Carries(j)
          /\ rules[i].departure_time.s = T2359
          /\ rules[j].departure_time.s = T2359
          /\ run.reads[i] = LastMinute - 1
          /\ run.reads[j] = LastMinute
          /\ i \in Kept
          /\ j \notin Kept

\* C5: for a weight that is not negative every candidate has a surplus >= 0
\* equal to its max_weight minus the weight, and the surplus the explanation
\* reports is that of the flight returned.
C5_SurplusNonNegative ==
    (Returned /\ run.w.t = "num" /\ run.w.n >= 0) =>
        /\ \A k \in 1..Len(run.result.filtered) :
              LET c == run.result.filtered[k]
              IN  /\ c.surplus.t = "num"
                  /\ c.surplus.n >= 0
                  /\ c.surplus.n = rules[c.pos].max_weight.n - run.w.n
        /\ run.result.outcome = "selected" =>
              /\ run.result.text[4].t = "num"
              /\ run.result.text[4].n >= 0
              /\ run.result.text[4].n =
                     rules[run.result.best[1].pos].max_weight.n - run.w.n

\* a flight is returned for a valid weight with capacity to spare
C5_Witness ==
    /\ Returned
    /\ run.w.t = "num" /\ run.w.n >= 0
    /\ run.result.outcome = "selected"
    /\ run.result.text[4].n > 0

\* C6: among the eligible rules that tie with the least key on both surplus
\* and carbon_footprint the first of the rule list is returned, tied
\* candidates keep the order of the rule list, and sorting the ranked
\* candidates again leaves them as they are.
C6_Stable ==
    (Returned /\ run.result.outcome = "selected") =>
        LET ranked == run.result.candidates
        IN  /\ \A j \in EligibleRules :
                  KeyTie(run.result.best[1].pos, j) => run.result.best[1].pos <= j
            /\ \A k, l \in 1..Len(ranked) :
                  (k < l /\ KeyTie(ranked[k].pos, ranked[l].pos))
                      => ranked[k].pos < ranked[l].pos
            /\ Sort(ranked) = ranked

\* two different rules that repeat an identifier tie on both keys and the
\* first of them is returned
C6_Witness ==
    /\ Returned
    /\ run.result.outcome = "selected"
    /\ \E j \in EligibleRules :
          /\ run.result.best[1].pos < j
          /\ KeyTie(run.result.best[1].pos, j)
          /\ rules[j] # rules[run.result.best[1].pos]
          /\ rules[j].flight = rules[run.result.best[1].pos].flight

\* C7: two evaluations of find_flight on the same rules, weight and
\* destination that begin at the same instant return the same flight and the
\* same text.
C7_Deterministic ==
    Returned =>
        \A reads \in ReadSeqs(run.now, Len(rules)) :
            LET other == find_flight(rules, run.w, run.destination, reads)
            IN  other.best = run.result.best /\ other.text = run.result.text

\* C10: the candidates of one evaluation are the rules eligible at one single
\* instant within the evaluation.
C10_SingleInstant ==
    (Returned /\ rules # <<>>) =>
        \E t \in Instants :
            /\ run.now <= t
            /\ t <= run.reads[Len(rules)]
            /\ \A i \in 1..Len(rules) : (i \in Kept) <=> EligibleAt(i, t)

(***************************************************************************)
(* Malformed records.                                                      *)
(***************************************************************************)
\* a record with every field the engine reads, each of its type
WellFormed(r) ==
    /\ r.flight.t = "str"
    /\ r.destination.t = "str"
    /\ r.max_weight.t = "num"
    /\ r.carbon_footprint.t = "num"
    /\ r.departure_time.t = "str"
    /\ r.departure_time.s \in DOMAIN MinuteOfDay

WellFormedPlaces == {i \in 1..Len(rules) : WellFormed(rules[i])}

RECURSIVE Ascending(_)
\* the numbers of a set in ascending order
Ascending(S) ==
    IF S = {} THEN <<>>
    ELSE LET least == CHOOSE a \in S : \A b \in S : a <= b
         IN  <<least>> \o Ascending(S \ {least})

\* the same call with the malformed records taken out of the rule list
WithoutMalformed ==
    LET keep == Ascending(WellFormedPlaces)
    IN  find_flight([k \in 1..Len(keep) |-> rules[keep[k]]], run.w, run.destination,
                    [k \in 1..Len(keep) |-> run.reads[keep[k]]])

\* C8: on a rule list that holds a malformed record find_flight does not
\* raise and returns what it returns with the malformed records removed.
C8_AbsorbsMalformed ==
    run.handler = "find_flight" =>
        /\ run.result.outcome # "raised"
        /\ run.result.outcome = WithoutMalformed.outcome
        /\ run.result.text = WithoutMalformed.text

(***************************************************************************)
(* The callbacks.                                                          *)
(***************************************************************************)
\* the weight on_find_flight read is negative or not finite, or the
\* destination is blank
InvalidQuery ==
    /\ run.handler = "on_find_flight"
    /\ run.parsed
    /\ \/ run.w.t # "num"
       \/ run.w.n < 0
       \/ \A k \in 1..Len(run.destination) : run.destination[k] = " "

\* C3: on_find_flight answers an invalid query with an error of its own,
\* never with a flight and never with the no-match outcome.
C3_InvalidRejected ==
    InvalidQuery =>
        /\ run.result.outcome \notin {"selected", "none"}
        /\ messagebox # <<>>

\* a view has opened its window
Shown ==
    /\ run.handler \in {"on_show_all_flights", "on_show_chart"}
    /\ toplevel.title \in {"Available Flights", "Surplus Capacity Chart"}

\* what find_flight returns on the inputs and the clock reads of the view
Decision == find_flight(rules, run.w, run.destination, run.reads)

\* the row a view shows for a candidate
RowOf(c) ==
    IF run.handler = "on_show_all_flights"
    THEN <<c.rule.flight, c.rule.max_weight, c.surplus, c.rule.airport_code,
           c.rule.departure_time, c.rule.carbon_footprint>>
    ELSE <<c.rule.flight, c.surplus>>

RowsOf(cs) == [k \in 1..Len(cs) |-> RowOf(cs[k])]

\* C9 as claimed: the listing and the chart show the candidates of
\* find_flight in ranked order, the flight find_flight selects first.
C9_ViewsRanked ==
    Shown => toplevel.rows = RowsOf(Decision.candidates)

\* C9 as amended: on the same rules, weight, destination and clock reads the
\* listing and the chart show the candidates of find_flight in the order of
\* the rule list, without ranking them; the flight find_flight selects is
\* among the flights shown; they show nothing iff find_flight finds no
\* flight; no view changes the rule list.
C9_ViewsInputOrder ==
    /\ [](Shown =>
            /\ toplevel.rows = RowsOf(Decision.filtered)
            /\ Decision.outcome = "selected"
            /\ \E k \in 1..Len(toplevel.rows) :
                  toplevel.rows[k] = RowOf(Decision.best[1]))
    /\ []((run.handler \in {"on_show_all_flights", "on_show_chart"}
             /\ run.parsed /\ ~Shown) => Decision.outcome = "none")
    /\ [][rules' = rules]_vars

\* a view shows two flights in the order of the rule list while find_flight
\* ranks the second of them first
C9_Witness ==
    /\ Shown
    /\ Len(toplevel.rows) >= 2
    /\ toplevel.rows[2] = RowOf(Decision.best[1])
    /\ toplevel.rows[1] # RowOf(Decision.best[1])

\* result_label is written by on_find_flight when it recommends (line 210) or
\* finds no match (line 214) and by on_reset (line 220), and by nothing else:
\* it names the flight recommended iff the on_find_flight that ended last
\* recommended one and on_reset has not run since
Recommending ==
    /\ Len(result_label) = 2
    /\ result_label[1] = Lit("Recommended Flight: ")

Booked == run.handler = "on_book_flight"

PassIssued == Booked /\ toplevel.title = "Boarding Pass"

NoFlightBox == <<"No Flight", "No flight recommended to book.">>

\* C11: on_book_flight issues a boarding pass only if the on_find_flight that
\* ended last recommended a flight and on_reset has not run since, and the
\* pass is for that flight; after a find that ended in no match, or after
\* on_reset, on_book_flight tells that there is no flight to book.
C11_BooksCurrentRecommendation ==
    /\ PassIssued =>
          /\ Recommending
          /\ Len(toplevel.rows) = 1
          /\ toplevel.rows[1][1] = result_label[2]
    /\ (Booked /\ ~Recommending) =>
          /\ messagebox = NoFlightBox
          /\ toplevel = NoWindow

====
